---- MODULE Spec2Model ----
(***************************************************************************)
(* go-switcher (src/main.go): the four commands list, download, clean and  *)
(* switch, acting on the version store <root>/<version>/<arch>/ and on the *)
(* profile file ~/.profile.                                                *)
(*                                                                         *)
(* The version store is the directory tree under goDownloadDir.  A         *)
(* directory is "listable" when os.ReadDir on it succeeds; a directory     *)
(* that is not listable lacks the read permission only, so os.Stat and     *)
(* os.MkdirAll below it still work.  File contents are sequences of        *)
(* tokens: the newline, the three substrings the rewrite looks for, the    *)
(* fixed texts the rewrite writes, the path of a version directory, and    *)
(* "text" for any other run of characters containing none of the three     *)
(* substrings.                                                             *)
(***************************************************************************)
EXTENDS Integers, Sequences, FiniteSets, TLC

(* ------------------------------ bounds --------------------------------- *)

NumVersions == 2
NumArchs == 2
MaxInitLen == 3
MaxBlocks == 2

(* Directory names, in the order os.ReadDir returns them (sorted by name). *)
VersionNames == <<"1.22.0", "1.23.0", "1.24.0", "1.25.0">>
ArchNames == <<"darwin-amd64", "linux-amd64", "windows-amd64", "windows-arm64">>

VersionSeq == [i \in 1..NumVersions |-> VersionNames[i]]
ArchSeq == [i \in 1..NumArchs |-> ArchNames[i]]
Versions == {VersionSeq[i] : i \in 1..NumVersions}
Archs == {ArchSeq[i] : i \in 1..NumArchs}

MaxCount == NumVersions * NumArchs

\* the default of the --arch flag of download and of switch
DefaultArch == "linux-amd64"

(* --------------------------- the version store ------------------------- *)

NoArch == [kind |-> "none", go |-> FALSE, workspace |-> FALSE]
FileArch == [kind |-> "file", go |-> FALSE, workspace |-> FALSE]
EmptyArchDir == [kind |-> "dir", go |-> FALSE, workspace |-> FALSE]

NoEntry == [kind |-> "none", listable |-> TRUE, sub |-> [a \in Archs |-> NoArch]]
FileEntry == [kind |-> "file", listable |-> TRUE, sub |-> [a \in Archs |-> NoArch]]
NewVersionDir == [kind |-> "dir", listable |-> TRUE, sub |-> [a \in Archs |-> NoArch]]

EmptyStore == [v \in Versions |-> NoEntry]

VARIABLES root, store, profile, last

vars == <<root, store, profile, last>>

(* ----------------------------- os calls -------------------------------- *)

\* variant: the check of the root with os.Stat is left out
RootNotExist_NoStat(r) == FALSE

\* os.Stat(config.GoDownloadDir) fails with a not-exist error
RootNotExist(r) == r = "missing"

\* os.ReadDir(config.GoDownloadDir) returns an error
ReadDirRootFails(r) == r # "dir"

\* os.ReadDir(config.GoDownloadDir): the entries of the root, sorted by name
ReadDirRoot(st) == SelectSeq(VersionSeq, LAMBDA v : st[v].kind # "none")

\* os.ReadDir(versionDir) returns an error
ReadDirVersionFails(e) == ~e.listable

\* os.ReadDir(versionDir): the entries of a version directory, sorted by name
ReadDirVersion(e) == SelectSeq(ArchSeq, LAMBDA a : e.sub[a].kind # "none")

\* fi.IsDir() of a root entry, archFi.IsDir() of a version directory entry
IsDir(x) == x.kind = "dir"

\* fmt.Sprintf("%s/%s/%s", config.GoDownloadDir, version, arch), one row for
\* each version of VersionNames and one column for each arch of ArchNames
PathTable ==
    << << "/usr/local/bin/go-switcher/1.22.0/darwin-amd64",
          "/usr/local/bin/go-switcher/1.22.0/linux-amd64",
          "/usr/local/bin/go-switcher/1.22.0/windows-amd64",
          "/usr/local/bin/go-switcher/1.22.0/windows-arm64" >>,
       << "/usr/local/bin/go-switcher/1.23.0/darwin-amd64",
          "/usr/local/bin/go-switcher/1.23.0/linux-amd64",
          "/usr/local/bin/go-switcher/1.23.0/windows-amd64",
          "/usr/local/bin/go-switcher/1.23.0/windows-arm64" >>,
       << "/usr/local/bin/go-switcher/1.24.0/darwin-amd64",
          "/usr/local/bin/go-switcher/1.24.0/linux-amd64",
          "/usr/local/bin/go-switcher/1.24.0/windows-amd64",
          "/usr/local/bin/go-switcher/1.24.0/windows-arm64" >>,
       << "/usr/local/bin/go-switcher/1.25.0/darwin-amd64",
          "/usr/local/bin/go-switcher/1.25.0/linux-amd64",
          "/usr/local/bin/go-switcher/1.25.0/windows-amd64",
          "/usr/local/bin/go-switcher/1.25.0/windows-arm64" >> >>

PathOf(v, a) ==
    PathTable[CHOOSE i \in 1..NumVersions : VersionSeq[i] = v]
             [CHOOSE j \in 1..NumArchs : ArchSeq[j] = a]

(* ------------------------- the two scan loops -------------------------- *)

NoScan == [versions |-> <<>>, architectures |-> <<>>, paths |-> <<>>]

\* variant: the inner loop of list without the archFi.IsDir() test
RECURSIVE ListArchLoop_NoDirTest(_, _, _, _)
ListArchLoop_NoDirTest(archDirs, v, e, acc) ==
    IF archDirs = <<>> THEN acc
    ELSE LET a == Head(archDirs)
             nxt == [versions |-> Append(acc.versions, v),
                     architectures |-> Append(acc.architectures, a),
                     paths |-> Append(acc.paths, PathOf(v, a))]
         IN ListArchLoop_NoDirTest(Tail(archDirs), v, e, nxt)

\* the inner loop of list: one entry per architecture directory
RECURSIVE ListArchLoop(_, _, _, _)
ListArchLoop(archDirs, v, e, acc) ==
    IF archDirs = <<>> THEN acc
    ELSE LET a == Head(archDirs)
             nxt == IF IsDir(e.sub[a])
                    THEN [versions |-> Append(acc.versions, v),
                          architectures |-> Append(acc.architectures, a),
                          paths |-> Append(acc.paths, PathOf(v, a))]
                    ELSE acc
         IN ListArchLoop(Tail(archDirs), v, e, nxt)

\* the outer loop of list: skips plain files and unreadable version directories
RECURSIVE ListScan(_, _, _)
ListScan(dir, st, acc) ==
    IF dir = <<>> THEN acc
    ELSE LET v == Head(dir)
             e == st[v]
             nxt == IF ~IsDir(e) THEN acc
                    ELSE IF ReadDirVersionFails(e) THEN acc
                    ELSE ListArchLoop(ReadDirVersion(e), v, e, acc)
         IN ListScan(Tail(dir), st, nxt)

\* variant: the inner loop of switch without the archFi.IsDir() test
RECURSIVE SwitchArchLoop_NoDirTest(_, _, _, _)
SwitchArchLoop_NoDirTest(archDirs, v, e, acc) ==
    IF archDirs = <<>> THEN acc
    ELSE LET a == Head(archDirs)
             nxt == [versions |-> Append(acc.versions, v),
                     architectures |-> Append(acc.architectures, a),
                     paths |-> Append(acc.paths, PathOf(v, a))]
         IN SwitchArchLoop_NoDirTest(Tail(archDirs), v, e, nxt)

\* the inner loop of switch
RECURSIVE SwitchArchLoop(_, _, _, _)
SwitchArchLoop(archDirs, v, e, acc) ==
    IF archDirs = <<>> THEN acc
    ELSE LET a == Head(archDirs)
             nxt == IF IsDir(e.sub[a])
                    THEN [versions |-> Append(acc.versions, v),
                          architectures |-> Append(acc.architectures, a),
                          paths |-> Append(acc.paths, PathOf(v, a))]
                    ELSE acc
         IN SwitchArchLoop(Tail(archDirs), v, e, nxt)

\* the outer loop of switch
RECURSIVE SwitchScan(_, _, _)
SwitchScan(dir, st, acc) ==
    IF dir = <<>> THEN acc
    ELSE LET v == Head(dir)
             e == st[v]
             nxt == IF ~IsDir(e) THEN acc
                    ELSE IF ReadDirVersionFails(e) THEN acc
                    ELSE SwitchArchLoop(ReadDirVersion(e), v, e, acc)
         IN SwitchScan(Tail(dir), st, nxt)

\* the lines list prints: "<i>. <version> (<arch>)"
Printed(scan) == [i \in 1..Len(scan.versions) |-> <<scan.versions[i], scan.architectures[i]>>]

(* ------------------------ the command record --------------------------- *)

NoSel == [version |-> "", arch |-> "", dir |-> ""]

\* what the last command was and how it ended: its arguments, the error it
\* returned, what list printed (out), what switch resolved (sel), the length of
\* the scan or the number of removals clean tried (count), whether switch
\* repeated the switch before it (repeat) and whether a removal failed (failed)
Cmd(op, arg, flag, err) ==
    [op |-> op, arg |-> arg, flag |-> flag, err |-> err, out |-> <<>>, sel |-> NoSel,
     count |-> 0, repeat |-> FALSE, failed |-> FALSE]

(* -------------------------------- list --------------------------------- *)

\* the numbered lines list prints for a store
ListOutput(r, st) ==
    IF RootNotExist(r) THEN <<>>
    ELSE IF ReadDirRootFails(r) THEN <<>>
    ELSE Printed(ListScan(ReadDirRoot(st), st, NoScan))

\* the error list returns
ListErr(r) ==
    IF RootNotExist(r) THEN "nil"
    ELSE IF ReadDirRootFails(r) THEN "read directory"
    ELSE "nil"

listGoVersions ==
    /\ UNCHANGED <<root, store, profile>>
    /\ last' = [Cmd("list", "", "", ListErr(root)) EXCEPT
                  !.out = ListOutput(root, store),
                  !.count = Len(ListOutput(root, store))]

(* ------------------------------ download ------------------------------- *)

\* os.MkdirAll(path below <root>/<version>/<arch>) meets a plain file on the way
PathBlocked(st, v, a) == st[v].kind = "file" \/ st[v].sub[a].kind = "file"

\* os.MkdirAll(targetDir, 0755): the directories that are missing are created
MkdirAllTarget(st, v, a) ==
    LET e == IF IsDir(st[v]) THEN st[v] ELSE NewVersionDir
        d == IF IsDir(e.sub[a]) THEN e.sub[a] ELSE EmptyArchDir
    IN [st EXCEPT ![v] = [e EXCEPT !.sub[a] = d]]

\* os.MkdirAll creates the root too
MkdirAllRoot(r) == IF r = "missing" THEN "dir" ELSE r

\* tar -xzf <archive> -C targetDir puts the toolchain under targetDir/go
Extract(st, v, a) == [st EXCEPT ![v].sub[a].go = TRUE]

\* the error downloadGoVersion returns; fault is the step the environment fails
DownloadErr(st, v, a, fault) ==
    IF PathBlocked(st, v, a) \/ fault = "mkdir" THEN "create directory"
    ELSE IF fault = "wget" THEN "download archive"
    ELSE IF fault = "tar" THEN "extract archive"
    ELSE "nil"

\* variant: the target directory is removed again when a later step fails
DownloadStore_CleansUp(st, v, a, fault) ==
    IF DownloadErr(st, v, a, fault) = "nil" THEN Extract(MkdirAllTarget(st, v, a), v, a)
    ELSE st

\* the store downloadGoVersion leaves: the target directory is created before
\* the download and nothing removes it when a later step fails
DownloadStore(st, v, a, fault) ==
    IF DownloadErr(st, v, a, fault) = "create directory" THEN st
    ELSE IF DownloadErr(st, v, a, fault) = "nil" THEN Extract(MkdirAllTarget(st, v, a), v, a)
    ELSE MkdirAllTarget(st, v, a)

DownloadFaults == {"none", "mkdir", "wget", "tar"}

downloadGoVersion(version, arch, fault) ==
    /\ store' = DownloadStore(store, version, arch, fault)
    /\ root' = IF DownloadErr(store, version, arch, fault) = "create directory"
               THEN root ELSE MkdirAllRoot(root)
    /\ last' = Cmd("download", version, arch, DownloadErr(store, version, arch, fault))
    /\ UNCHANGED profile

(* -------------------------------- clean -------------------------------- *)

\* variant: the loop of clean also passes over directories it cannot read
CleanSkips_Unreadable(e) == ~IsDir(e) \/ ~e.listable

\* the loop of clean passes over the entries that are not directories
CleanSkips(e) == ~IsDir(e)

\* os.RemoveAll(versionDir) returns an error: the environment fails it, or the
\* directory has entries and cannot be read
RemoveAllFails(e, v, failing) ==
    v \in failing \/ (~e.listable /\ \E a \in Archs : e.sub[a].kind # "none")

\* the store after the loop of clean; a failed removal leaves the directory
CleanStore(st, failing) ==
    [v \in Versions |->
        IF CleanSkips(st[v]) \/ RemoveAllFails(st[v], v, failing) THEN st[v] ELSE NoEntry]

cleanGoVersions(failing) ==
    /\ UNCHANGED <<root, profile>>
    /\ IF RootNotExist(root)
       THEN /\ last' = Cmd("clean", "", "", "nil")
            /\ UNCHANGED store
       ELSE IF ReadDirRootFails(root)
       THEN /\ last' = Cmd("clean", "", "", "read directory")
            /\ UNCHANGED store
       ELSE IF Len(ReadDirRoot(store)) = 0
       THEN /\ last' = Cmd("clean", "", "", "nil")
            /\ UNCHANGED store
       ELSE /\ store' = CleanStore(store, failing)
            /\ last' = [Cmd("clean", "", "", "nil") EXCEPT
                          !.count = Cardinality({v \in Versions : ~CleanSkips(store[v])}),
                          !.failed = \E v \in Versions :
                              ~CleanSkips(store[v]) /\ RemoveAllFails(store[v], v, failing)]

(* -------------------------- the profile file --------------------------- *)

NL == "\n"
PathExport == "export PATH=$PATH:"
GopathExport == "export GOPATH="
GorootExport == "export GOROOT="
Comment == "# Go environment variables"
Text == "text"

\* strings.Split(content, "\n"): always at least one line
RECURSIVE SplitFrom(_, _, _)
SplitFrom(s, cur, acc) ==
    IF s = <<>> THEN Append(acc, cur)
    ELSE IF Head(s) = NL THEN SplitFrom(Tail(s), <<>>, Append(acc, cur))
    ELSE SplitFrom(Tail(s), Append(cur, Head(s)), acc)

Split(s) == SplitFrom(s, <<>>, <<>>)

\* strings.Join(lines, "\n")
RECURSIVE Join(_)
Join(lines) ==
    IF lines = <<>> THEN <<>>
    ELSE IF Len(lines) = 1 THEN lines[1]
    ELSE lines[1] \o <<NL>> \o Join(Tail(lines))

\* strings.Contains(line, substring)
Contains(line, sub) == \E i \in DOMAIN line : line[i] = sub

\* variant: the rewrite keeps the GOROOT lines
Dropped_KeepsGoroot(line) ==
    \/ Contains(line, PathExport)
    \/ Contains(line, GopathExport)

\* the lines the rewrite leaves out
Dropped(line) ==
    \/ Contains(line, PathExport)
    \/ Contains(line, GopathExport)
    \/ Contains(line, GorootExport)

goBinPath(versionDir) == <<versionDir, "/go/bin">>
goPath(versionDir) == <<versionDir, "/workspace">>
goRoot(versionDir) == <<versionDir, "/go">>

\* variant: the block without its leading empty line
NewBlock_NoBlank(versionDir) ==
    << <<Comment>>,
       <<PathExport>> \o goBinPath(versionDir),
       <<GopathExport>> \o goPath(versionDir),
       <<GorootExport>> \o goRoot(versionDir) >>

\* the five lines appended for a version directory
NewBlock(versionDir) ==
    << <<>>,
       <<Comment>>,
       <<PathExport>> \o goBinPath(versionDir),
       <<GopathExport>> \o goPath(versionDir),
       <<GorootExport>> \o goRoot(versionDir) >>

\* newProfileLines
newProfileLines(profileLines, versionDir) ==
    SelectSeq(profileLines, LAMBDA line : ~Dropped(line)) \o NewBlock(versionDir)

\* the content switch writes back
RewriteProfile(content, versionDir) == Join(newProfileLines(Split(content), versionDir))

\* the blocks earlier switches appended: the lines that are the comment line
Blocks(content) ==
    Len(SelectSeq(Split(content), LAMBDA line : line = <<Comment>>))

(* -------------------------------- switch ------------------------------- *)

\* strconv.Itoa, on the numbers the model uses
NumStrings == <<"0", "1", "2", "3", "4", "5", "6", "7", "8", "9", "10", "11", "12">>
Itoa(n) == NumStrings[n + 1]

\* strconv.Atoi: ok is err == nil
Atoi(s) ==
    IF \E n \in 0..(Len(NumStrings) - 1) : Itoa(n) = s
    THEN [ok |-> TRUE, num |-> CHOOSE n \in 0..(Len(NumStrings) - 1) : Itoa(n) = s]
    ELSE [ok |-> FALSE, num |-> 0]

\* variant: the range test without its lower bound
InvalidNumber_NoLower(num, n) == num > n

\* num < 1 || num > len(versions)
InvalidNumber(num, n) == num < 1 \/ num > n

\* variant: the existence check looks at the version directory only
VersionDirNotExist_VersionOnly(st, v, a) == st[v].kind = "none"

\* os.Stat(versionDir) fails with a not-exist error; a plain file on the way
\* gives another error (ENOTDIR) or none, and passes
VersionDirNotExist(st, v, a) ==
    \/ st[v].kind = "none"
    \/ (st[v].kind = "dir" /\ st[v].sub[a].kind = "none")

\* os.MkdirAll(goPath, 0755)
MkdirAllWorkspace(st, v, a) ==
    [MkdirAllTarget(st, v, a) EXCEPT ![v].sub[a].workspace = TRUE]

\* the step of switch the environment fails: os.UserHomeDir, os.WriteFile
SwitchFaults == {"none", "home", "write"}

\* the steps of switch after the version directory is resolved
Apply(arg, flag, fault, sel, n) ==
    LET c == [Cmd("switch", arg, flag, "nil") EXCEPT
                !.sel = sel, !.count = n,
                !.repeat = last.op = "switch" /\ last.err = "nil" /\ last.sel.dir = sel.dir]
    IN IF VersionDirNotExist(store, sel.version, sel.arch)
       THEN /\ last' = [c EXCEPT !.err = "not installed"]
            /\ UNCHANGED <<store, profile>>
       ELSE IF PathBlocked(store, sel.version, sel.arch)
       THEN /\ last' = [c EXCEPT !.err = "create workspace directory"]
            /\ UNCHANGED <<store, profile>>
       ELSE /\ store' = MkdirAllWorkspace(store, sel.version, sel.arch)
            /\ IF fault = "home"
               THEN /\ last' = [c EXCEPT !.err = "get home directory"]
                    /\ UNCHANGED profile
               ELSE IF ~profile.exists
               THEN /\ last' = [c EXCEPT !.err = "read profile"]
                    /\ UNCHANGED profile
               ELSE IF fault = "write"
               THEN /\ last' = [c EXCEPT !.err = "write profile"]
                    /\ UNCHANGED profile
               ELSE /\ Blocks(profile.content) < MaxBlocks
                    /\ last' = c
                    /\ profile' = [exists |-> TRUE,
                                   content |-> RewriteProfile(profile.content, sel.dir)]

switchGoVersion(versionOrNumber, flag, fault) ==
    /\ root' = root
    /\ IF ReadDirRootFails(root)
       THEN /\ last' = Cmd("switch", versionOrNumber, flag, "read directory")
            /\ UNCHANGED <<store, profile>>
       ELSE LET scan == SwitchScan(ReadDirRoot(store), store, NoScan)
                n == Len(scan.versions)
                conv == Atoi(versionOrNumber)
            IN IF n = 0
               THEN /\ last' = Cmd("switch", versionOrNumber, flag, "no Go versions found")
                    /\ UNCHANGED <<store, profile>>
               ELSE IF conv.ok
               THEN IF InvalidNumber(conv.num, n)
                    THEN /\ last' = [Cmd("switch", versionOrNumber, flag, "invalid number")
                                       EXCEPT !.count = n]
                         /\ UNCHANGED <<store, profile>>
                    ELSE IF conv.num \notin DOMAIN scan.versions
                    THEN \* index out of range: the Go runtime panics
                         /\ last' = [Cmd("switch", versionOrNumber, flag, "panic")
                                       EXCEPT !.count = n]
                         /\ UNCHANGED <<store, profile>>
                    ELSE Apply(versionOrNumber, flag, fault,
                               [version |-> scan.versions[conv.num],
                                arch |-> scan.architectures[conv.num],
                                dir |-> scan.paths[conv.num]], n)
               ELSE Apply(versionOrNumber, flag, fault,
                          [version |-> versionOrNumber, arch |-> flag,
                           dir |-> PathOf(versionOrNumber, flag)], n)

(* --------------------------- specifications ---------------------------- *)

IntArgs == {Itoa(n) : n \in 0..(MaxCount + 1)}
SwitchArgs == IntArgs \cup Versions

RootKinds == {"missing", "dir", "unreadable"}

ArchInit == {NoArch, FileArch, EmptyArchDir}
EntryInit ==
    {NoEntry, FileEntry} \cup
    {[kind |-> "dir", listable |-> l, sub |-> s] : l \in BOOLEAN, s \in [Archs -> ArchInit]}

NoProfile == [exists |-> FALSE, content |-> <<>>]
\* a profile an earlier switch to the first version has written
OldProfile ==
    [exists |-> TRUE,
     content |-> RewriteProfile(<<Text, NL, GorootExport, Text>>,
                                PathOf(VersionSeq[1], ArchSeq[1]))]

NoCmd == Cmd("none", "", "", "nil")

\* the tokens of a profile the user wrote
Alphabet == {NL, PathExport, GopathExport, GorootExport, Text}

RECURSIVE SeqsUpTo(_, _)
SeqsUpTo(S, n) ==
    IF n = 0 THEN {<<>>}
    ELSE LET shorter == SeqsUpTo(S, n - 1)
         IN shorter \cup {Append(q, x) : q \in {r \in shorter : Len(r) = n - 1}, x \in S}

\* a machine on which the tool has not run yet
Init ==
    /\ root \in {"missing", "dir"}
    /\ store = EmptyStore
    /\ profile \in {NoProfile, OldProfile}
    /\ last = NoCmd

\* the four commands, --arch left at its default
Next ==
    \/ listGoVersions
    \/ \E v \in Versions, f \in DownloadFaults : downloadGoVersion(v, DefaultArch, f)
    \/ \E failing \in SUBSET Versions : cleanGoVersions(failing)
    \/ \E arg \in SwitchArgs, f \in SwitchFaults : switchGoVersion(arg, DefaultArch, f)

Spec == Init /\ [][Next]_vars

\* a store that holds foreign entries: plain files, unreadable directories
InitStore ==
    /\ root \in RootKinds
    /\ store \in [Versions -> EntryInit]
    /\ root = "missing" => store = EmptyStore
    /\ profile = OldProfile
    /\ last = NoCmd

NextStore ==
    \/ listGoVersions
    \/ \E failing \in SUBSET Versions : cleanGoVersions(failing)
    \/ \E arg \in SwitchArgs, a \in Archs, f \in SwitchFaults : switchGoVersion(arg, a, f)

SpecStore == InitStore /\ [][NextStore]_vars

NextDownload ==
    \E v \in Versions, a \in Archs, f \in DownloadFaults : downloadGoVersion(v, a, f)

SpecDownload == InitStore /\ [][NextDownload]_vars

\* every profile of up to MaxInitLen tokens, every version installed
InitProfile ==
    /\ root = "dir"
    /\ store = [v \in Versions |->
                  [kind |-> "dir", listable |-> TRUE,
                   sub |-> [a \in Archs |-> [kind |-> "dir", go |-> TRUE, workspace |-> TRUE]]]]
    /\ profile \in {[exists |-> TRUE, content |-> c] : c \in SeqsUpTo(Alphabet, MaxInitLen)}
    /\ last = NoCmd

\* switches to the first and to the last entry by index and to the first
\* version by name
ProfileArgs == {Itoa(1), Itoa(MaxCount), VersionSeq[1]}

NextProfile ==
    \E arg \in ProfileArgs, f \in SwitchFaults : switchGoVersion(arg, DefaultArch, f)

SpecProfile == InitProfile /\ [][NextProfile]_vars

(* ------------------------------- claims -------------------------------- *)

\* the argument of the last command, read as a number
LastNum == Atoi(last.arg)
Count(r, st) == Len(ListOutput(r, st))

\* C1: switch by an index i of 1..count selects the version and the
\* architecture list prints at position i for the same store, whatever the
\* --arch flag is.
C1_SwitchSelectsListed ==
    [][\A i \in 1..Count(root, store) :
          (last'.op = "switch" /\ Atoi(last'.arg).ok /\ Atoi(last'.arg).num = i)
          => /\ last'.sel.version = ListOutput(root, store)[i][1]
             /\ last'.sel.arch = ListOutput(root, store)[i][2]]_vars

C1_Witness ==
    /\ last.op = "switch" /\ last.err = "nil"
    /\ LastNum.ok /\ LastNum.num >= 2
    /\ last.flag # last.sel.arch
    /\ <<last.sel.version, last.sel.arch>> = ListOutput(root, store)[LastNum.num]
    /\ \E v \in Versions : store[v].kind = "file"

\* C2 as stated: switch with an integer outside [1, count] fails with the
\* range error and leaves the profile unchanged, for every count >= 0.
C2_Original ==
    [][(/\ last'.op = "switch" /\ Atoi(last'.arg).ok
        /\ (Atoi(last'.arg).num < 1 \/ Atoi(last'.arg).num > Count(root, store)))
       => (last'.err = "invalid number" /\ profile' = profile)]_vars

\* C2 amended: switch with an integer outside [1, count] fails and changes
\* neither the profile nor the store; the error is the range error when
\* count >= 1, and with count = 0 it is "no Go versions found", or the read
\* error when the root cannot be read.
C2_RangeError ==
    [][(/\ last'.op = "switch" /\ Atoi(last'.arg).ok
        /\ (Atoi(last'.arg).num < 1 \/ Atoi(last'.arg).num > Count(root, store)))
       => /\ profile' = profile /\ store' = store /\ root' = root
          /\ Count(root, store) >= 1 => last'.err = "invalid number"
          /\ Count(root, store) = 0 =>
                last'.err = (IF root = "dir" THEN "no Go versions found"
                             ELSE "read directory")]_vars

C2_Witness ==
    /\ last.op = "switch" /\ last.err = "invalid number"
    /\ LastNum.ok /\ LastNum.num = Count(root, store) + 1
    /\ Count(root, store) >= 1

\* the lines of a content that contain a substring
LinesWith(content, sub) ==
    LET lines == Split(content)
    IN {i \in DOMAIN lines : \E k \in DOMAIN lines[i] : lines[i][k] = sub}

\* C3: after two successful switches in a row to the same version directory
\* the profile has exactly one PATH line, one GOPATH line and one GOROOT line,
\* each pointing at that directory.
C3_OneTriple ==
    (last.op = "switch" /\ last.err = "nil" /\ last.repeat) =>
        LET lines == Split(profile.content)
            D == last.sel.dir
        IN /\ Cardinality(LinesWith(profile.content, "export PATH=$PATH:")) = 1
           /\ Cardinality(LinesWith(profile.content, "export GOPATH=")) = 1
           /\ Cardinality(LinesWith(profile.content, "export GOROOT=")) = 1
           /\ \A i \in LinesWith(profile.content, "export PATH=$PATH:") :
                 lines[i] = <<"export PATH=$PATH:", D, "/go/bin">>
           /\ \A i \in LinesWith(profile.content, "export GOPATH=") :
                 lines[i] = <<"export GOPATH=", D, "/workspace">>
           /\ \A i \in LinesWith(profile.content, "export GOROOT=") :
                 lines[i] = <<"export GOROOT=", D, "/go">>

C3_Witness ==
    /\ last.op = "switch" /\ last.err = "nil" /\ last.repeat
    /\ Blocks(profile.content) = 2
    /\ Cardinality(LinesWith(profile.content, "export GOROOT=")) = 1

\* C4 as stated: a scan of a root that does not exist gives an empty result
\* and no error, in list and in switch.
C4_MissingRootScansEmpty ==
    (root = "missing" /\ last.op \in {"list", "switch"}) =>
        (last.err # "read directory" /\ last.count = 0)

\* the (version, arch) pairs of directories at the two levels of the store
DirPairs(st) ==
    {p \in Versions \X Archs : st[p[1]].kind = "dir" /\ st[p[1]].sub[p[2]].kind = "dir"}

\* the pairs of DirPairs whose version directory can be listed
ListablePairs(st) == {p \in DirPairs(st) : st[p[1]].listable}

\* C5 as stated: for every root, the scan has as many entries as there are
\* pairs of a version directory and an architecture directory in it.
C5_Original ==
    last.op \in {"list", "switch"} => last.count = Cardinality(DirPairs(store))

\* C5 amended: for every root that can be listed, the scan of list and of
\* switch has as many entries as there are pairs of a version directory that
\* can be listed and an architecture directory in it; plain files at either
\* level contribute no entry.
C5_ScanCount ==
    (last.op \in {"list", "switch"} /\ root = "dir") =>
        last.count = Cardinality(ListablePairs(store))

C5_Witness ==
    /\ last.op = "switch" /\ root = "dir"
    /\ last.count >= 1
    /\ \E v \in Versions : store[v].kind = "file"
    /\ \E v \in Versions, a \in Archs : store[v].kind = "dir" /\ store[v].sub[a].kind = "file"

\* C6 as stated: clean on a root that is empty or does not exist returns no
\* error and changes nothing.
C6_Original ==
    [][(last'.op = "clean" /\ (root = "missing" \/ store = EmptyStore))
       => (last'.err = "nil" /\ root' = root /\ store' = store /\ profile' = profile)]_vars

\* C6 amended: clean on a root that does not exist, or that can be listed and
\* is empty, returns no error and changes nothing.
C6_CleanNoOp ==
    [][(last'.op = "clean" /\ (root = "missing" \/ (root = "dir" /\ store = EmptyStore)))
       => (last'.err = "nil" /\ root' = root /\ store' = store /\ profile' = profile)]_vars

C6_Witness ==
    /\ last.op = "clean" /\ last.err = "nil" /\ last.count = 0
    /\ root = "missing"

\* C7 as stated: after a clean in which no removal fails the root holds no
\* entry, whatever it held before.
C7_Original ==
    (last.op = "clean" /\ ~last.failed) => store = EmptyStore

\* C7 amended: after a clean that returns no error and in which no removal
\* fails, the root holds no directory; the plain files directly under the root
\* are left in place.
C7_CleanRemovesDirs ==
    [][(last'.op = "clean" /\ last'.err = "nil" /\ ~last'.failed)
       => \A v \in Versions :
             store'[v] = IF store[v].kind = "dir" THEN NoEntry ELSE store[v]]_vars

C7_Witness ==
    /\ last.op = "clean" /\ last.err = "nil" /\ ~last.failed
    /\ last.count >= 1
    /\ \E v \in Versions : store[v].kind = "file"
    /\ \A v \in Versions : store[v].kind # "dir"

\* the directory <root>/<v>/<a> exists
TargetIsDir(st, v, a) == st[v].kind = "dir" /\ st[v].sub[a].kind = "dir"

\* a plain file stands at <root>/<v> or at <root>/<v>/<a>
FileOnPath(st, v, a) ==
    st[v].kind = "file" \/ (st[v].kind = "dir" /\ st[v].sub[a].kind = "file")

\* C8 as stated: with an argument that is no integer, when the directory
\* <root>/<argument>/<flag> does not exist, switch fails with the
\* not-installed error and changes neither the profile nor the store.
C8_Original ==
    [][(/\ last'.op = "switch" /\ ~Atoi(last'.arg).ok
        /\ ~TargetIsDir(store, last'.arg, last'.flag))
       => (last'.err = "not installed" /\ profile' = profile /\ store' = store)]_vars

\* C8 amended: with an argument that is no integer, when the directory
\* <root>/<argument>/<flag> does not exist, switch fails and changes neither
\* the profile nor the store; when the scan found at least one entry, the
\* target is <root>/<argument>/<flag>, and the error is the not-installed
\* error unless a plain file stands at <root>/<argument> or at the target;
\* when the scan found nothing the error is "no Go versions found", or the
\* read error when the root cannot be read.
C8_NotInstalled ==
    [][(/\ last'.op = "switch" /\ ~Atoi(last'.arg).ok
        /\ ~TargetIsDir(store, last'.arg, last'.flag))
       => /\ last'.err # "nil" /\ profile' = profile /\ store' = store
          /\ Count(root, store) >= 1 =>
                /\ last'.sel.dir = PathOf(last'.arg, last'.flag)
                /\ last'.err = (IF FileOnPath(store, last'.arg, last'.flag)
                                THEN "create workspace directory"
                                ELSE "not installed")
          /\ Count(root, store) = 0 =>
                last'.err = (IF root = "dir" THEN "no Go versions found"
                             ELSE "read directory")]_vars

C8_Witness ==
    /\ last.op = "switch" /\ ~LastNum.ok /\ last.err = "not installed"
    /\ last.sel.dir = PathOf(last.arg, last.flag)
    /\ store[last.arg].kind = "dir" /\ store[last.arg].sub[last.flag].kind = "none"
    /\ profile.exists

\* the lines that contain none of the three substrings, in their order
KeptLines(lines) ==
    SelectSeq(lines, LAMBDA l :
        \A k \in DOMAIN l : l[k] \notin {"export PATH=$PATH:", "export GOPATH=", "export GOROOT="})

\* C9: a successful switch to the version directory D writes the original
\* lines that contain none of the three substrings, in their order, and then
\* an empty line, the comment line and the three export lines for D.
C9_Rewrite ==
    [][(last'.op = "switch" /\ last'.err = "nil")
       => Split(profile'.content) =
            KeptLines(Split(profile.content)) \o
            << <<>>,
               <<"# Go environment variables">>,
               <<"export PATH=$PATH:", last'.sel.dir, "/go/bin">>,
               <<"export GOPATH=", last'.sel.dir, "/workspace">>,
               <<"export GOROOT=", last'.sel.dir, "/go">> >>]_vars

C9_Witness ==
    /\ last.op = "switch" /\ last.err = "nil" /\ ~last.repeat
    /\ Len(Split(profile.content)) = 7
    /\ Split(profile.content)[1] = <<"text">>
    /\ Split(profile.content)[2] = <<>>
    /\ Blocks(profile.content) = 1

\* a download that stopped at the download step or at the extraction step
DownloadAborted == last.op = "download" /\ last.err \in {"download archive", "extract archive"}

\* list reports the pair of the last command
Reported == \E i \in 1..Count(root, store) : ListOutput(root, store)[i] = <<last.arg, last.flag>>

\* C10 as stated: a download that aborts at the download step or at the
\* extraction step leaves <root>/<version>/<arch> in place, so that list
\* reports the pair and the existence check of switch passes.
C10_Original ==
    DownloadAborted =>
        /\ TargetIsDir(store, last.arg, last.flag)
        /\ Reported
        /\ Count(root, store) >= 1 /\ ~VersionDirNotExist(store, last.arg, last.flag)

\* C10 amended: a download that aborts at the download step or at the
\* extraction step leaves <root>/<version>/<arch> in place; when the root and
\* the version directory can be listed, list reports the pair as installed and
\* a switch to it passes the existence check, toolchain or not.
C10_AbortLeavesDir ==
    DownloadAborted =>
        /\ TargetIsDir(store, last.arg, last.flag)
        /\ (root = "dir" /\ store[last.arg].listable) =>
              /\ Reported
              /\ Count(root, store) >= 1 /\ ~VersionDirNotExist(store, last.arg, last.flag)

C10_Witness ==
    /\ DownloadAborted /\ Reported
    /\ ~store[last.arg].sub[last.flag].go

====
